---- MODULE Spec2Model ----
(***************************************************************************)
(* A model of arrow-udf: the evaluation routines emitted by                *)
(* FunctionAttr::generate_function (arrow-udf-macros/src/gen.rs), the      *)
(* descriptor expansion FunctionAttr::expand, and the row loop of the      *)
(* JavaScript runtime (arrow-udf-js/src/lib.rs).                           *)
(*                                                                         *)
(* Option<T> is a sequence of length 0 (None) or 1 (Some(x)).              *)
(***************************************************************************)
EXTENDS Integers, Sequences, FiniteSets, TLC

\* ------------------------------------------------------------------ bounds
\* Rows of one input batch.
MaxRows == 3
\* Items the iterators of a table function yield during one call, in all.
MaxItems == 3
\* The flush threshold of the table-function loop.  The generated code sets
\* `const BATCH_SIZE: usize = 1024` (gen.rs:470); the model runs the same loop
\* with a threshold small enough for the thresholds to be crossed.
BATCH_SIZE == 2
\* add_function calls of one JS runtime.
MaxAdds == 2
\* Arguments of a descriptor handed to expand.
MaxExpandArgs == 2
\* Arguments of a descriptor handed to type inference.
MaxInferArgs == 2
\* Argument types of a descriptor handed to code generation.
MaxGenArgs == 3

None == <<>>
Some(x) == <<x>>
is_some(o) == Len(o) = 1
Unwrap(o) == o[1]

Range(s) == {s[k] : k \in 1..Len(s)}

RECURSIVE Flatten(_)
\* The concatenation of a sequence of sequences.
Flatten(ss) == IF Len(ss) = 0 THEN <<>> ELSE Head(ss) \o Flatten(Tail(ss))

RECURSIVE SumSeq(_)
SumSeq(s) == IF Len(s) = 0 THEN 0 ELSE Head(s) + SumSeq(Tail(s))

\* s is a prefix of t.
IsPrefix(s, t) == Len(s) <= Len(t) /\ SubSeq(t, 1, Len(s)) = s

\* --------------------------------------------------------- the type catalog
\* Logical type names, as the strings FunctionAttr carries.  The `types`
\* module (is_primitive, array_type, iter_fields, expand_type_wildcard) is
\* not part of the sources at hand; these tables follow the specification's
\* TypeCatalog for the types the model uses.
StructNested == "struct<a:int,b:struct<c:int>>"
StructC == "struct<c:int>"

is_primitive(ty) == ty \in {"smallint", "int", "bigint", "real", "float"}

starts_with_struct(ty) == ty \in {StructNested, StructC}

\* The field types of a struct type, in declaration order.
iter_fields(ty) ==
    CASE ty = StructNested -> <<"int", StructC>>
      [] ty = StructC -> <<"int">>
      [] OTHER -> <<>>

\* The physical array type of a logical type.
array_type(ty) ==
    CASE ty = "int" -> "Int32Array"
      [] ty = "varchar" -> "StringArray"
      [] starts_with_struct(ty) -> "StructArray"
      [] OTHER -> "OtherArray"

\* ------------------------------------------------------------ the builders
\* A builder is [vals, fields].  A leaf builder keeps its entries (Option
\* values) in vals and has no fields; a StructBuilder keeps its validity bits
\* in vals and one child builder per field in fields.
RECURSIVE builder(_)
builder(ty) ==
    IF starts_with_struct(ty)
    THEN [vals |-> <<>>,
          fields |-> [k \in 1..Len(iter_fields(ty)) |-> builder(iter_fields(ty)[k])]]
    ELSE [vals |-> <<>>, fields |-> <<>>]

BuilderLen(b) == Len(b.vals)

RECURSIVE gen_append_value(_, _, _)
\* gen_append_value: a struct value v is the tuple of its field values; each
\* is appended to its field builder, then the entry is marked present.
gen_append_value(b, ty, v) ==
    IF starts_with_struct(ty)
    THEN [vals |-> Append(b.vals, TRUE),
          fields |-> [k \in 1..Len(b.fields) |->
                        gen_append_value(b.fields[k], iter_fields(ty)[k], v[k])]]
    ELSE [vals |-> Append(b.vals, Some(v)), fields |-> b.fields]

RECURSIVE gen_append_null(_, _)
\* gen_append_null: null to every field builder, recursively, then
\* builder.append(false).
gen_append_null(b, ty) ==
    IF starts_with_struct(ty)
    THEN [vals |-> Append(b.vals, FALSE),
          fields |-> [k \in 1..Len(b.fields) |->
                        gen_append_null(b.fields[k], iter_fields(ty)[k])]]
    ELSE [vals |-> Append(b.vals, None), fields |-> b.fields]

\* gen_append: `match v { Some(v) => append_value, None => append_null }`.
gen_append(b, ty, v) ==
    IF is_some(v) THEN gen_append_value(b, ty, Unwrap(v)) ELSE gen_append_null(b, ty)

\* `builder.append_null()` called on the builder itself (gen.rs:206, 217, 388).
\* On a StructBuilder this is append(false): the validity bit only; on a
\* leaf builder it appends a null entry.
builder_append_null(b, ty) ==
    IF starts_with_struct(ty)
    THEN [vals |-> Append(b.vals, FALSE), fields |-> b.fields]
    ELSE [vals |-> Append(b.vals, None), fields |-> b.fields]

RECURSIVE Synchronized(_)
\* Every field builder, recursively, is as long as the validity of its struct.
Synchronized(b) ==
    \A k \in 1..Len(b.fields) :
        /\ BuilderLen(b.fields[k]) = BuilderLen(b)
        /\ Synchronized(b.fields[k])

\* `builder.finish()` panics when a StructBuilder and a field builder are of
\* unequal lengths; otherwise the array is the builder's content.
finish_panics(b) == ~Synchronized(b)


\* --------------------------------------------- descriptors and signatures
\* ReturnTypeKind of the user function and of the items of a table function.
Kinds == {"T", "Option", "Result", "ResultOption"}

is_result(kind) == kind \in {"Result", "ResultOption"}

\* UserFunctionAttr::has_error: the signature says failure is possible, for
\* the call itself or for an item of the returned iterator.
has_error(ufn) ==
    \/ is_result(ufn.return_type_kind)
    \/ (is_some(ufn.iterator_item_kind) /\ is_result(Unwrap(ufn.iterator_item_kind)))

\* UserFunctionAttr::is_pure: no context, no writer, not async, and a plain
\* value is returned.
is_pure(ufn) ==
    ~ufn.async_ /\ ~ufn.write /\ ~ufn.context /\ ufn.return_type_kind = "T"

\* `matches!(self.args.last(), Some(t) if t == "...")`
variadic(fa) == Len(fa.args) > 0 /\ fa.args[Len(fa.args)] = "..."

num_args(fa) == Len(fa.args) - (IF variadic(fa) THEN 1 ELSE 0)

\* The conditions of the SIMD branch but for purity.
simd_selected_impure(fa, ufn) ==
    /\ is_primitive(fa.ret)
    /\ \A k \in 1..Len(fa.args) : is_primitive(fa.args[k])
    /\ Len(fa.args) <= 2
    /\ ~variadic(fa)

\* The condition of the SIMD branch of generate_function.
simd_selected(fa, ufn) ==
    /\ is_primitive(fa.ret)
    /\ \A k \in 1..Len(fa.args) : is_primitive(fa.args[k])
    /\ Len(fa.args) <= 2
    /\ is_pure(ufn)
    /\ ~variadic(fa)

\* The branch of generate_function that emits the routine's body, or the
\* configuration error it returns.
eval_path(fa, ufn) ==
    IF fa.is_table_function THEN "table"
    ELSE IF is_some(fa.batch_fn)
         THEN (IF variadic(fa) THEN "error_batch_variadic" ELSE "batch_fn")
    ELSE IF simd_selected(fa, ufn) THEN "simd"
    ELSE IF ufn.write /\ fa.ret # "varchar" /\ fa.ret # "bytea"
         THEN "error_write"
    ELSE "generic"

\* The schema that never has an error field.
SCHEMA_always_bare(fa, ufn) ==
    IF fa.is_table_function
    THEN << [name |-> "row", type |-> "int", nullable |-> TRUE],
            [name |-> fa.name, type |-> fa.ret, nullable |-> TRUE] >>
    ELSE << [name |-> fa.name, type |-> fa.ret, nullable |-> TRUE] >>

\* The lazy_static SCHEMA of the routine: (row,) name (, error).
SCHEMA(fa, ufn) ==
    (IF fa.is_table_function
     THEN << [name |-> "row", type |-> "int", nullable |-> TRUE],
             [name |-> fa.name, type |-> fa.ret, nullable |-> TRUE] >>
     ELSE << [name |-> fa.name, type |-> fa.ret, nullable |-> TRUE] >>)
    \o (IF has_error(ufn)
        THEN << [name |-> "error", type |-> "varchar", nullable |-> TRUE] >>
        ELSE << >>)

\* --------------------------------------------------- the user's function
\* What one call of the user function (or one item of its iterator) gives
\* back, by ReturnTypeKind: ok = no failure, some = a value is present,
\* x = the value, e = the failure.
UserOutcomes(kind, x, e) ==
    { [ok |-> TRUE, some |-> TRUE, x |-> x, e |-> e] }
    \cup (IF kind \in {"Option", "ResultOption"}
          THEN { [ok |-> TRUE, some |-> FALSE, x |-> x, e |-> e] } ELSE {})
    \cup (IF is_result(kind)
          THEN { [ok |-> FALSE, some |-> FALSE, x |-> x, e |-> e] } ELSE {})

RECURSIVE UserValue(_, _)
\* A value of logical type ty made from the number n: n itself, or the
\* struct whose fields are made from n.
UserValue(ty, n) ==
    IF starts_with_struct(ty)
    THEN [k \in 1..Len(iter_fields(ty)) |-> UserValue(iter_fields(ty)[k], n)]
    ELSE n

\* The number a call's value is made from: the sum of the arguments present.
ArgSum(cells) == SumSeq([k \in 1..Len(cells) |-> IF is_some(cells[k]) THEN Unwrap(cells[k]) ELSE 0])

\* `e.to_string()`: the display string of failure number c.
to_string(e) == <<"error", e.code>>

\* The projection that appends no null error on success.
project_no_null(kind, out) ==
    CASE kind = "T" -> [v |-> Some(out.x), err |-> <<>>]
      [] kind = "Option" -> [v |-> IF out.some THEN Some(out.x) ELSE None, err |-> <<>>]
      [] kind = "Result" ->
            IF out.ok THEN [v |-> Some(out.x), err |-> <<>>]
            ELSE [v |-> None, err |-> <<Some(to_string(out.e))>>]
      [] kind = "ResultOption" ->
            IF out.ok THEN [v |-> IF out.some THEN Some(out.x) ELSE None, err |-> <<>>]
            ELSE [v |-> None, err |-> <<Some(to_string(out.e))>>]

\* The projection of the scalar call by ReturnTypeKind (gen.rs:225-240):
\* v is the Option handed to the append, err the entries appended to
\* error_builder.
project(kind, out) ==
    CASE kind = "T" -> [v |-> Some(out.x), err |-> <<>>]
      [] kind = "Option" -> [v |-> IF out.some THEN Some(out.x) ELSE None, err |-> <<>>]
      [] kind = "Result" ->
            IF out.ok THEN [v |-> Some(out.x), err |-> <<None>>]
            ELSE [v |-> None, err |-> <<Some(to_string(out.e))>>]
      [] kind = "ResultOption" ->
            IF out.ok THEN [v |-> IF out.some THEN Some(out.x) ELSE None, err |-> <<None>>]
            ELSE [v |-> None, err |-> <<Some(to_string(out.e))>>]

\* The projection of one item of a table function (gen.rs:268-286): as
\* project, but T and Option items append a null error when the routine has
\* an error column.
element(ufn, out) ==
    LET kind == Unwrap(ufn.iterator_item_kind)
        error_append_null == IF has_error(ufn) THEN <<None>> ELSE <<>>
    IN CASE kind = "T" -> [v |-> Some(out.x), err |-> error_append_null]
         [] kind = "Option" ->
               [v |-> IF out.some THEN Some(out.x) ELSE None, err |-> error_append_null]
         [] OTHER -> project(kind, out)

\* The gate that takes no argument as an Option.
gate_open_all_required(cells, args_option) ==
    \A k \in 1..Len(cells) : is_some(cells[k])

\* The null gate (gen.rs:244-259): the call is made when every argument the
\* function does not take as an Option is present.
gate_open(cells, args_option) ==
    \A k \in 1..Len(cells) : args_option[k] \/ is_some(cells[k])


\* ------------------------------------------------------------------ state
VARIABLES
    attr,           \* the FunctionAttr the routine was generated from
    user_fn,        \* the UserFunctionAttr of the user function
    col_types,      \* the physical array type of each input column
    pc,             \* where the routine is
    input,          \* the rows of the input batch read so far
    index_builder,  \* index_builder: the "row" column of a table function
    out_builder,    \* builder: the value column
    error_builder,  \* error_builder: the "error" column
    item_k,         \* items taken so far from the current row's iterator
    yielded,        \* the record batches the iterator has yielded
    calls,          \* every call of the user function: row, arguments, result
    result,         \* what the eval call returned
    functions,      \* Runtime.functions of the JS runtime
    js,             \* the running Runtime::call, or the last one's outcome
    expanded,       \* what FunctionAttr::expand returned
    gen             \* what the generation-time functions returned or were applied to

evalVars == <<attr, user_fn, col_types, pc, input, index_builder, out_builder,
              error_builder, item_k, yielded, calls, result>>
vars == <<attr, user_fn, col_types, pc, input, index_builder, out_builder,
          error_builder, item_k, yielded, calls, result, functions, js, expanded,
          gen>>

\* The JS runtime with no call running: what the last operation returned
\* is all that is kept of it.
Idle(adds, outcome) ==
    [pc |-> "idle", adds |-> adds, outcome |-> outcome, name |-> "f",
     ncols |-> 0, mode |-> "CalledOnNullInput", input |-> <<>>, row |-> <<>>,
     results |-> <<>>, invoked |-> <<>>, added |-> {}]

\* ----------------------------------------------------- generated routines
\* The argument lists of the descriptors the routines are generated from.
ArgTypeLists == { <<>>, <<"int">>, <<"varchar">>, <<"int", "int">> }

RetTypes == {"int", "varchar", StructNested}

ArrayTypes == {"Int32Array", "StringArray"}

\* A cell of an input column: absent, or the value 1.
Cells == {None, Some(1)}

\* The descriptors and signatures generate_function emits a routine for.  A
\* routine exists when generation returns no error and the emitted code
\* compiles: the SIMD kernels take the user function on plain values, and
\* only the generic scalar path declares the writer a `write` function is
\* handed.  The rest keeps the enumeration small: an injected context only
\* decides between the SIMD and the generic path, so it is enumerated where
\* it decides; a custom batch function replaces the user function, whose
\* argument flags then play no part; table functions take at most one
\* argument, an int and not as an Option, and return an int or a struct.
EvalConfigs ==
    { c \in [ fa : [ name : {"f"}, args : ArgTypeLists, ret : RetTypes,
                     is_table_function : BOOLEAN, batch_fn : {None, Some("f_batch")},
                     type_infer : {None}, output : {None} ],
              ufn : [ name : {"f"}, args_option : {<<>>} \cup [1..1 -> BOOLEAN] \cup [1..2 -> BOOLEAN],
                      context : BOOLEAN, write : BOOLEAN, async_ : {FALSE},
                      return_type_kind : Kinds,
                      iterator_item_kind : {None} \cup {Some(k) : k \in Kinds} ] ] :
        /\ Len(c.ufn.args_option) = Len(c.fa.args)
        /\ is_some(c.ufn.iterator_item_kind) = c.fa.is_table_function
        /\ eval_path(c.fa, c.ufn) \in {"table", "batch_fn", "simd", "generic"}
        /\ eval_path(c.fa, c.ufn) = "simd" => \A k \in 1..Len(c.fa.args) : ~c.ufn.args_option[k]
        /\ c.ufn.write => eval_path(c.fa, c.ufn) = "generic"
        /\ c.ufn.context =>
              (eval_path(c.fa, c.ufn) = "generic" /\ simd_selected_impure(c.fa, c.ufn)
               /\ c.ufn.return_type_kind = "T" /\ ~c.ufn.write)
        /\ eval_path(c.fa, c.ufn) = "batch_fn" =>
              (\A k \in 1..Len(c.fa.args) : ~c.ufn.args_option[k])
        /\ c.fa.is_table_function =>
              (/\ c.fa.batch_fn = None
               /\ c.fa.args \in {<<>>, <<"int">>}
               /\ c.fa.ret # "varchar"
               /\ \A k \in 1..Len(c.fa.args) : ~c.ufn.args_option[k]) }

path == eval_path(attr, user_fn)

\* The row the loop is at, zero-based (`i` of `.enumerate()`).
CurrentRow == Len(input) - 1

EvalInit ==
    /\ \E c \in EvalConfigs : attr = c.fa /\ user_fn = c.ufn
    /\ col_types \in [1..Len(attr.args) -> ArrayTypes]
    /\ pc = "start"
    /\ input = <<>>
    /\ index_builder = <<>>
    /\ out_builder = builder(attr.ret)
    /\ error_builder = <<>>
    /\ item_k = 0
    /\ yielded = <<>>
    /\ calls = <<>>
    /\ result = [kind |-> "none"]
    /\ functions = {}
    /\ js = Idle(0, "none")
    /\ expanded = <<>> /\ gen = [kind |-> "none"]

\* The argument positions whose column is not of the declared array type.
Mismatches == { k \in 1..num_args(attr) : col_types[k] # array_type(attr.args[k]) }

Min(S) == CHOOSE m \in S : \A n \in S : m <= n

Max(S) == CHOOSE m \in S : \A n \in S : m >= n

\* The position of the last column that fails to downcast.
cast_error_position_last(S) == Max(S) - 1

\* downcast_arrays stops at the first column that fails to downcast and
\* gives `expect {array type} for the {k}-th argument`, k zero-based.
cast_error_position(S) == Min(S) - 1

\* The entry of the eval function: downcast_arrays, then the body.  A table
\* function returns the iterator; its body runs when the iterator is pulled.
Downcast ==
    /\ pc = "start"
    /\ IF Mismatches # {}
       THEN /\ pc' = "cast_error"
            /\ result' = [kind |-> "CastError",
                          position |-> cast_error_position(Mismatches),
                          expect |-> array_type(attr.args[cast_error_position(Mismatches) + 1])]
       ELSE /\ pc' = "rows"
            /\ result' = IF attr.is_table_function THEN [kind |-> "iterator"]
                         ELSE [kind |-> "none"]
    /\ UNCHANGED <<attr, user_fn, col_types, input, index_builder, out_builder,
                   error_builder, item_k, yielded, calls, functions, js, expanded, gen>>

Rows == [1..num_args(attr) -> Cells]

\* The failure a call at row i gives when it fails.
FailureAt(i) == [code |-> i]

\* The append of the generic path (gen.rs:375-397): through the writer for a
\* `write` function, else gen_append.
append_output(b, ty, v) ==
    IF user_fn.write
    THEN (IF is_some(v) THEN gen_append_value(b, ty, Unwrap(v)) ELSE builder_append_null(b, ty))
    ELSE gen_append(b, ty, v)

\* One turn of the generic per-row loop (gen.rs:398-402): the null gate, the
\* call and its projection, the append.
GenericRow ==
    /\ pc = "rows" /\ path = "generic" /\ Len(input) < MaxRows
    /\ \E cells \in Rows :
        /\ input' = Append(input, cells)
        /\ IF gate_open(cells, user_fn.args_option)
           THEN \E out \in UserOutcomes(user_fn.return_type_kind,
                                        UserValue(attr.ret, ArgSum(cells)),
                                        FailureAt(Len(input))) :
                  LET p == project(user_fn.return_type_kind, out) IN
                  /\ calls' = Append(calls, [row |-> Len(input), args |-> cells,
                                             out |-> out, items |-> <<>>])
                  /\ error_builder' = error_builder \o p.err
                  /\ out_builder' = append_output(out_builder, attr.ret, p.v)
           ELSE /\ out_builder' = append_output(out_builder, attr.ret, None)
                /\ UNCHANGED <<calls, error_builder>>
    /\ UNCHANGED <<attr, user_fn, col_types, pc, index_builder, item_k, yielded,
                   result, functions, js, expanded, gen>>

\* One element of the SIMD kernels (gen.rs:350-366): from_iter_values of the
\* repeated call, arity::unary, arity::binary.  The kernels apply the
\* function to the value slot of every index and copy the validity of the
\* inputs to the result.
SimdRow ==
    /\ pc = "rows" /\ path = "simd" /\ Len(input) < MaxRows
    /\ \E cells \in Rows :
        /\ input' = Append(input, cells)
        /\ calls' = Append(calls, [row |-> Len(input), args |-> cells,
                                   out |-> [ok |-> TRUE, some |-> TRUE,
                                            x |-> UserValue(attr.ret, ArgSum(cells)),
                                            e |-> FailureAt(Len(input))],
                                   items |-> <<>>])
        /\ out_builder' =
              [out_builder EXCEPT !.vals =
                  Append(@, IF \A k \in 1..Len(cells) : is_some(cells[k])
                            THEN Some(UserValue(attr.ret, ArgSum(cells)))
                            ELSE None)]
    /\ UNCHANGED <<attr, user_fn, col_types, pc, index_builder, error_builder, item_k,
                   yielded, result, functions, js, expanded, gen>>

\* The custom batch function (gen.rs:337-342) is handed the columns and
\* returns the value column; the user function is not called.  One entry
\* of the column it returns.
BatchFnRow ==
    /\ pc = "rows" /\ path = "batch_fn" /\ Len(input) < MaxRows
    /\ \E cells \in Rows, c \in {None, Some(UserValue(attr.ret, 0))} :
        /\ input' = Append(input, cells)
        /\ out_builder' = gen_append(out_builder, attr.ret, c)
    /\ UNCHANGED <<attr, user_fn, col_types, pc, index_builder, error_builder, item_k,
                   yielded, calls, result, functions, js, expanded, gen>>

\* `vec![index_array, value_array, #error_array]` / `vec![array, #error_array]`
batch_arrays(ib, ob, eb) ==
    (IF attr.is_table_function
     THEN << [vals |-> ib, fields |-> <<>>], ob >>
     ELSE << ob >>)
    \o (IF has_error(user_fn) THEN << [vals |-> eb, fields |-> <<>>] >> ELSE << >>)

\* RecordBatch::try_new(..).unwrap() panics unless every array has the
\* batch's row count and there is one array per schema field; finish()
\* panics on an unsynchronized StructBuilder.
batch_panics(arrays, n) ==
    \/ \E k \in 1..Len(arrays) : finish_panics(arrays[k]) \/ BuilderLen(arrays[k]) # n
    \/ Len(arrays) # Len(SCHEMA(attr, user_fn))

\* The end of a scalar routine (gen.rs:403, 425-432): finish the builders
\* and wrap them in a batch of input.num_rows() rows.
ScalarFinish ==
    /\ pc = "rows" /\ ~attr.is_table_function
    /\ LET arrays == batch_arrays(index_builder, out_builder, error_builder) IN
       IF batch_panics(arrays, Len(input))
       THEN /\ pc' = "panicked"
            /\ result' = [kind |-> "panic"]
       ELSE /\ pc' = "done"
            /\ result' = [kind |-> "batch", schema |-> SCHEMA(attr, user_fn),
                          columns |-> arrays, num_rows |-> Len(input)]
    /\ UNCHANGED <<attr, user_fn, col_types, input, index_builder, out_builder,
                   error_builder, item_k, yielded, calls, functions, js, expanded, gen>>


\* yield_batch (gen.rs:297-301): finish the three builders, which empties
\* them, and yield the batch; a panic ends the iterator.
YieldBatch(ib, ob, eb) ==
    LET arrays == batch_arrays(ib, ob, eb) IN
    IF batch_panics(arrays, Len(ib))
    THEN /\ pc' = "panicked"
         /\ index_builder' = ib /\ out_builder' = ob /\ error_builder' = eb
         /\ UNCHANGED yielded
    ELSE /\ yielded' = Append(yielded, [schema |-> SCHEMA(attr, user_fn),
                                         columns |-> arrays, num_rows |-> Len(ib)])
         /\ index_builder' = <<>>
         /\ out_builder' = builder(attr.ret)
         /\ error_builder' = <<>>

\* The value append of the row-level failure branch of a table function
\* (gen.rs:206, 217): `builder.append_null()`.
row_failure_append(b, ty) == builder_append_null(b, ty)

\* One turn of the row loop of a table function (gen.rs:313-316): the null
\* gate, the call and its row-level projection (gen.rs:197-223).  A failed
\* call appends (i, null, error) and the loop goes on to the next row.
TableRow ==
    /\ pc = "rows" /\ path = "table" /\ Len(input) < MaxRows
    /\ \E cells \in Rows :
        /\ input' = Append(input, cells)
        /\ IF gate_open(cells, user_fn.args_option)
           THEN \E out \in UserOutcomes(user_fn.return_type_kind, 0, FailureAt(Len(input))) :
                  /\ calls' = Append(calls, [row |-> Len(input), args |-> cells,
                                             out |-> out, items |-> <<>>])
                  /\ IF ~out.ok
                     THEN /\ index_builder' = Append(index_builder, Some(Len(input)))
                          /\ out_builder' = row_failure_append(out_builder, attr.ret)
                          /\ error_builder' = Append(error_builder, Some(to_string(out.e)))
                          /\ pc' = "rows"
                     ELSE /\ pc' = IF out.some THEN "items" ELSE "rows"
                          /\ UNCHANGED <<index_builder, out_builder, error_builder>>
           ELSE /\ pc' = "rows"
                /\ UNCHANGED <<calls, index_builder, out_builder, error_builder>>
    /\ item_k' = 0
    /\ UNCHANGED <<attr, user_fn, col_types, yielded, result, functions, js, expanded, gen>>

\* `if index_builder.len() == BATCH_SIZE` (gen.rs:321)
flush_due(n) == n = BATCH_SIZE

\* The items taken from the iterators so far.
ItemsTaken == Len(Flatten([k \in 1..Len(calls) |-> calls[k].items]))

\* One turn of `for v in iter` (gen.rs:317-324): the index, the projection
\* of the item, the append, and the flush when the threshold is reached.
\* Item k of a row's iterator has the value made from k.
TableItem ==
    /\ pc = "items" /\ ItemsTaken < MaxItems
    /\ \E out \in UserOutcomes(Unwrap(user_fn.iterator_item_kind),
                               UserValue(attr.ret, item_k),
                               FailureAt(10 * (CurrentRow + 1) + item_k)) :
        LET p == element(user_fn, out)
            ib == Append(index_builder, Some(CurrentRow))
            ob == gen_append(out_builder, attr.ret, p.v)
            eb == error_builder \o p.err
        IN
        /\ calls' = [calls EXCEPT ![Len(calls)].items = Append(@, out)]
        /\ item_k' = item_k + 1
        /\ IF flush_due(Len(ib))
           THEN YieldBatch(ib, ob, eb)
           ELSE /\ index_builder' = ib /\ out_builder' = ob /\ error_builder' = eb
                /\ UNCHANGED <<yielded, pc>>
        /\ (flush_due(Len(ib)) /\ ~batch_panics(batch_arrays(ib, ob, eb), Len(ib)))
              => UNCHANGED pc
    /\ UNCHANGED <<attr, user_fn, col_types, input, result, functions, js, expanded, gen>>

\* The iterator of the current row is exhausted: on to the next row.
TableIterEnd ==
    /\ pc = "items"
    /\ pc' = "rows"
    /\ UNCHANGED <<attr, user_fn, col_types, input, index_builder, out_builder,
                   error_builder, item_k, yielded, calls, result, functions, js, expanded, gen>>

\* The final flush of full batches only.
final_flush_due_full(n) == n >= BATCH_SIZE

\* `if index_builder.len() > 0` (gen.rs:326)
final_flush_due(n) == n > 0

\* The input is exhausted (gen.rs:326-328): the final flush.
TableFinal ==
    /\ pc = "rows" /\ path = "table"
    /\ IF final_flush_due(Len(index_builder))
       THEN /\ YieldBatch(index_builder, out_builder, error_builder)
            /\ (~batch_panics(batch_arrays(index_builder, out_builder, error_builder),
                              Len(index_builder))) => pc' = "done"
       ELSE /\ pc' = "done"
            /\ UNCHANGED <<index_builder, out_builder, error_builder, yielded>>
    /\ UNCHANGED <<attr, user_fn, col_types, input, item_k, calls, result,
                   functions, js, expanded, gen>>

EvalNext ==
    \/ Downcast
    \/ GenericRow
    \/ SimdRow
    \/ BatchFnRow
    \/ ScalarFinish
    \/ TableRow
    \/ TableItem
    \/ TableIterEnd
    \/ TableFinal

\* The generated evaluation routines, one call each.
SpecEval == EvalInit /\ [][EvalNext]_vars


\* ------------------------------------------- reading the routines' output
RECURSIVE EntryAt(_, _, _)
\* Entry n of a finished array or of a builder: None when absent, else the
\* value; a struct's value is the tuple of its fields' values.
EntryAt(b, ty, n) ==
    IF starts_with_struct(ty)
    THEN (IF b.vals[n]
          THEN Some([k \in 1..Len(b.fields) |->
                        LET f == EntryAt(b.fields[k], iter_fields(ty)[k], n)
                        IN IF is_some(f) THEN Unwrap(f) ELSE None])
          ELSE None)
    ELSE b.vals[n]

\* The calls of the user function made for input row r (zero-based).
CallsAt(r) == { k \in 1..Len(calls) : calls[k].row = r }

\* The (row_index, value) pairs of a yielded batch, in order.
BatchEntries(b) ==
    [n \in 1..b.num_rows |-> << b.columns[1].vals[n], EntryAt(b.columns[2], attr.ret, n) >>]

\* The (row_index, value) pairs of all yielded batches, concatenated.
YieldedEntries == Flatten([k \in 1..Len(yielded) |-> BatchEntries(yielded[k])])

\* The value of an item as the value column holds it.
ItemValue(item) == IF item.ok /\ item.some THEN Some(item.x) ELSE None

\* The entries of the items one call returned.
ItemEntries(c) == [n \in 1..Len(c.items) |-> << Some(c.row), ItemValue(c.items[n]) >>]

\* The entries of the items of all calls: rows in order, items in order.
AllItemEntries == Flatten([k \in 1..Len(calls) |-> ItemEntries(calls[k])])

\* The same with one (row_index, null) entry for every call that failed.
AllEntries ==
    Flatten([k \in 1..Len(calls) |->
                IF calls[k].out.ok THEN ItemEntries(calls[k])
                ELSE << << Some(calls[k].row), None >> >>])

\* The batches of the call: those an iterator yielded, the one a scalar
\* routine returned.
EmittedBatches ==
    Range(yielded) \cup (IF result.kind = "batch" THEN {result} ELSE {})

\* ------------------------------------------------------------- the claims

\* C1 (as claimed): every record batch a table function's iterator yields
\* has at most BATCH_SIZE rows, rows of failed calls included.
C1_BatchWithinThreshold ==
    \A k \in 1..Len(yielded) : yielded[k].num_rows <= BATCH_SIZE

\* C3: on the generic per-row path, a call of a Result or ResultOption
\* function that fails appends a null value and the failure's display
\* string as error text; one that succeeds appends its value (the inner
\* Option's value or null for ResultOption) and a null error.
C3_FallibleAppend ==
    [][ (path = "generic" /\ Len(calls') = Len(calls) + 1
         /\ is_result(user_fn.return_type_kind))
        => LET out == calls'[Len(calls')].out
               n == BuilderLen(out_builder')
               m == Len(error_builder')
           IN /\ n = BuilderLen(out_builder) + 1
              /\ m = Len(error_builder) + 1
              /\ SubSeq(error_builder', 1, m - 1) = error_builder
              /\ IF out.ok
                 THEN /\ error_builder'[m] = None
                      /\ EntryAt(out_builder', attr.ret, n) =
                            (IF user_fn.return_type_kind = "Result" \/ out.some
                             THEN Some(out.x) ELSE None)
                 ELSE /\ error_builder'[m] = Some(<<"error", out.e.code>>)
                      /\ EntryAt(out_builder', attr.ret, n) = None ]_vars

C3_Witness ==
    /\ path = "generic" /\ user_fn.return_type_kind = "ResultOption"
    /\ attr.ret = "int"
    /\ Len(calls) = 3
    /\ ~calls[1].out.ok
    /\ calls[2].out.ok /\ calls[2].out.some
    /\ calls[3].out.ok /\ ~calls[3].out.some
    /\ error_builder = << Some(<<"error", 0>>), None, None >>
    /\ out_builder.vals = << None, Some(calls[2].out.x), None >>

\* Every argument the function does not take as an Option is present.
AllRequiredPresent(cells) ==
    \A k \in 1..Len(cells) : user_fn.args_option[k] \/ cells[k] # None

\* C4 (as claimed): in a routine that calls the user function, a row with a
\* required argument absent has a null result and no call; every other row
\* has exactly one call.
C4_GatedRowsNeverInvoke ==
    (path \in {"generic", "simd", "table"} /\ pc \in {"rows", "items", "done"})
    => \A r \in 1..Len(input) :
          IF AllRequiredPresent(input[r])
          THEN Cardinality(CallsAt(r - 1)) = 1
          ELSE /\ Cardinality(CallsAt(r - 1)) = 0
               /\ path # "table" => EntryAt(out_builder, attr.ret, r) = None

\* C4 (amended): such a row has a null result on the generic and the SIMD
\* path and no entry in the output of a table function; the generic and the
\* table path make no call for it and one call for every other row; the SIMD
\* path makes one call for every row, the gated ones included.
C4_NullGate ==
    (path \in {"generic", "simd", "table"} /\ pc \in {"rows", "items", "done"})
    => \A r \in 1..Len(input) :
          LET present == AllRequiredPresent(input[r])
              n == Cardinality(CallsAt(r - 1))
          IN /\ path \in {"generic", "table"} => n = (IF present THEN 1 ELSE 0)
             /\ path = "simd" => n = 1
             /\ (path \in {"generic", "simd"} /\ ~present)
                   => EntryAt(out_builder, attr.ret, r) = None
             /\ (path = "table" /\ ~present)
                   => /\ \A e \in Range(YieldedEntries) : e[1] # Some(r - 1)
                      /\ \A e \in Range(index_builder) : e # Some(r - 1)

\* add over (1,1),(1,null),(1,1) on the SIMD path: [2, null, 2], one schema
\* field, and a call for the row with the absent argument too.
C4_Witness ==
    /\ path = "simd" /\ pc = "done"
    /\ input = << <<Some(1), Some(1)>>, <<Some(1), None>>, <<Some(1), Some(1)>> >>
    /\ result.columns = << [vals |-> << Some(2), None, Some(2) >>, fields |-> <<>>] >>
    /\ Len(result.schema) = 1
    /\ Len(calls) = 3

\* C5 (as claimed): after every append the field builders of a struct
\* builder, recursively, are as long as its validity.
C5_StructSynchronized == Synchronized(out_builder)

\* C6 (as claimed): when the iterator of a table function has ended, every
\* appended row has been yielded and no yielded batch is empty (so no
\* output means no batch).
C6_EverythingYielded ==
    (path = "table" /\ pc \in {"done", "panicked"})
    => /\ index_builder = <<>>
       /\ Len(YieldedEntries) = Len(AllEntries)
       /\ \A k \in 1..Len(yielded) : yielded[k].num_rows > 0

\* C7 (as claimed): the yielded batches, concatenated, are exactly the
\* (row_index, item_value) entries of the items, rows in order and items in
\* order.
C7_OnlyItemEntries ==
    (path = "table" /\ pc = "done") => YieldedEntries = AllItemEntries

\* C7 (amended): with one (row_index, null) entry for every call that
\* failed in the place of its items, the concatenation is at all times a
\* prefix of that sequence, and the whole of it when the iterator is done.
C7_EntriesInOrder ==
    path = "table"
    => /\ IsPrefix(YieldedEntries, AllEntries)
       /\ pc = "done" => YieldedEntries = AllEntries

\* Input rows yield 2, 0 and 1 items: (0,0),(0,1),(2,0).
C7_Witness ==
    /\ path = "table" /\ pc = "done" /\ attr.ret = "int"
    /\ Len(input) = 3
    /\ YieldedEntries = << <<Some(0), Some(0)>>, <<Some(0), Some(1)>>, <<Some(2), Some(0)>> >>

\* The signature says that the call or an item may fail.
MayFail ==
    \/ user_fn.return_type_kind \in {"Result", "ResultOption"}
    \/ user_fn.iterator_item_kind \in {Some("Result"), Some("ResultOption")}

\* C8: the schema is (name) or (row, name), with the nullable text field
\* "error" added last exactly when the signature says failure is possible,
\* and every emitted batch has one array per schema field.
C8_ErrorColumn ==
    LET sch == SCHEMA(attr, user_fn)
        base == IF attr.is_table_function THEN 2 ELSE 1
    IN /\ Len(sch) = base + (IF MayFail THEN 1 ELSE 0)
       /\ sch[base].name = attr.name
       /\ attr.is_table_function => sch[1].name = "row"
       /\ MayFail => sch[Len(sch)] = [name |-> "error", type |-> "varchar", nullable |-> TRUE]
       /\ \A b \in EmittedBatches : b.schema = sch /\ Len(b.columns) = Len(sch)

C8_Witness ==
    /\ pc = "done" /\ MayFail
    /\ \E b \in EmittedBatches : Len(b.columns) = 3 /\ b.num_rows > 0

\* C9: when a column is not of the declared array type, the eval call
\* returns a cast error naming the first such position; no row is read, the
\* user function is not called, nothing is built, and a table function
\* returns no iterator.
C9_CastErrorFirst ==
    LET bad == { k \in 1..Len(attr.args) : col_types[k] # array_type(attr.args[k]) }
    IN bad # {}
       => /\ pc \in {"start", "cast_error"}
          /\ input = <<>> /\ calls = <<>> /\ yielded = <<>>
          /\ index_builder = <<>> /\ error_builder = <<>>
          /\ out_builder = builder(attr.ret)
          /\ pc = "start" => result.kind = "none"
          /\ pc = "cast_error"
                => /\ result.kind = "CastError"
                   /\ result.position + 1 \in bad
                   /\ \A k \in bad : result.position + 1 <= k
                   /\ result.expect = array_type(attr.args[result.position + 1])

C9_Witness ==
    /\ pc = "cast_error" /\ Len(attr.args) = 2
    /\ col_types = <<"StringArray", "StringArray">>
    /\ result.position = 0


\* ------------------------------------------------------- the JS runtime
Names == {"f", "g"}

CallModes == {"CalledOnNullInput", "ReturnNullOnNullInput"}

\* A JS module: whether it compiles, and the functions it exports.
Codes == [compiles : BOOLEAN, exports : SUBSET Names]

Registered == { fn.name : fn \in functions }

\* `self.functions.get(name)`
Lookup(name) == CHOOSE fn \in functions : fn.name = name

\* The runtime after add_function or call has returned: the operation's
\* name and outcome, and the names add_function has succeeded for so far.
Returned(adds, outcome, name, added) ==
    [Idle(adds, outcome) EXCEPT !.name = name, !.added = added]

\* An insert that keeps the entry a name already has.
insert_keep(map, fn) ==
    IF \E old \in map : old.name = fn.name THEN map ELSE map \cup {fn}

\* `self.functions.insert(name.to_string(), function)`: the entry of the
\* name, if any, is replaced.
insert(map, fn) == { old \in map : old.name # fn.name } \cup {fn}

JsInit ==
    /\ functions = {}
    /\ js = Idle(0, "none")
    /\ attr = None /\ user_fn = None /\ col_types = <<>> /\ pc = "js"
    /\ input = <<>> /\ index_builder = <<>> /\ out_builder = builder("int")
    /\ error_builder = <<>> /\ item_k = 0 /\ yielded = <<>> /\ calls = <<>>
    /\ result = [kind |-> "none"] /\ expanded = <<>>
    /\ gen = [kind |-> "none"]

\* Runtime::add_function: compile the module, get the export, insert.
AddFunction ==
    /\ js.pc = "idle" /\ js.adds < MaxAdds
    /\ \E name \in Names, return_type \in {"int", "varchar"}, mode \in CallModes,
          code \in Codes :
        IF ~code.compiles
        THEN /\ js' = Returned(js.adds + 1, "failed to compile module", name, js.added)
             /\ UNCHANGED functions
        ELSE IF name \notin code.exports
        THEN /\ js' = Returned(js.adds + 1, "failed to get function", name, js.added)
             /\ UNCHANGED functions
        ELSE /\ functions' = insert(functions, [name |-> name, return_type |-> return_type,
                                                mode |-> mode, function |-> js.adds])
             /\ js' = Returned(js.adds + 1, "ok", name, js.added \cup {name})
    /\ UNCHANGED evalVars /\ UNCHANGED <<expanded, gen>>

\* The head of Runtime::call: look the function up, start the row loop.
CallStart ==
    /\ js.pc = "idle"
    /\ \E name \in Names, ncols \in 0..2 :
        IF name \notin Registered
        THEN js' = Returned(js.adds, "function not found", name, js.added)
        ELSE js' = [js EXCEPT !.pc = "loop", !.outcome = "none", !.name = name,
                              !.ncols = ncols, !.mode = Lookup(name).mode,
                              !.input = <<>>, !.row = <<>>, !.results = <<>>,
                              !.invoked = <<>>]
    /\ UNCHANGED functions /\ UNCHANGED evalVars /\ UNCHANGED <<expanded, gen>>

\* `row.iter().any(|v| v.is_null())`
any_null(row) == \E k \in 1..Len(row) : row[k] = None

\* The null branch of the loop pushes null and continues: `row` keeps the
\* values pushed for this row.
row_after_null(row) == row

\* One turn of `for i in 0..input.num_rows()` (lib.rs:121-140): push the
\* row's values onto `row`, then either the null branch or the call, which
\* drains `row` into the arguments.  The call gives null or a value, or
\* throws; get_jsvalue may fail.
CallRow ==
    /\ js.pc = "loop" /\ Len(js.input) < MaxRows
    /\ \E cells \in [1..js.ncols -> Cells], step \in {"get_fails", "throws", "null", "value"} :
        LET row == js.row \o cells IN
        IF step = "get_fails" /\ js.ncols > 0
        THEN js' = Returned(js.adds, "failed to get jsvalue from arrow array", js.name, js.added)
        ELSE IF js.mode = "ReturnNullOnNullInput" /\ any_null(row)
        THEN js' = [js EXCEPT !.input = Append(@, cells),
                              !.row = row_after_null(row),
                              !.results = Append(@, None)]
        ELSE IF step = "throws"
        THEN js' = Returned(js.adds, "failed to call function", js.name, js.added)
        ELSE js' = [js EXCEPT !.input = Append(@, cells), !.row = <<>>,
                              !.invoked = Append(@, [row |-> Len(js.input), args |-> row]),
                              !.results = Append(@, IF step = "null" THEN None
                                                    ELSE Some(Len(row)))]
    /\ UNCHANGED functions /\ UNCHANGED evalVars /\ UNCHANGED <<expanded, gen>>

\* The end of Runtime::call: build_array, then the one-column batch.
CallFinish ==
    /\ js.pc = "loop"
    /\ \E built \in BOOLEAN :
        js' = Returned(js.adds, IF built THEN "batch"
                                ELSE "failed to build arrow array from return values",
                       js.name, js.added)
    /\ UNCHANGED functions /\ UNCHANGED evalVars /\ UNCHANGED <<expanded, gen>>

JsNext == AddFunction \/ CallStart \/ CallRow \/ CallFinish

\* A JS runtime: add_function and call in any order.
SpecJs == JsInit /\ [][JsNext]_vars

\* C2 (as claimed): under ReturnNullOnNullInput, row i gets null without a
\* call exactly when row i itself holds a null; every other row is called
\* with exactly its own values, whatever the earlier rows held.
C2_NullGateIsRowLocal ==
    (js.mode = "ReturnNullOnNullInput" /\ js.pc = "loop")
    => \A r \in 1..Len(js.input) :
          LET made == { k \in 1..Len(js.invoked) : js.invoked[k].row = r - 1 }
          IN IF any_null(js.input[r])
             THEN made = {} /\ js.results[r] = None
             ELSE \E k \in made : made = {k} /\ js.invoked[k].args = js.input[r]


\* ---------------------------------------------------- FunctionAttr::expand
\* types::expand_type_wildcard: the concrete types a type pattern denotes;
\* a type that is no wildcard denotes itself.
expand_type_wildcard(ty) ==
    CASE ty = "*int" -> <<"smallint", "int", "bigint">>
      [] ty = "*float" -> <<"real", "float">>
      [] OTHER -> <<ty>>

\* The type names a descriptor handed to expand may carry.
TypePatterns == {"int", "varchar", "*int", "*float"}

RECURSIVE Product(_)
\* The products of a non-empty list of lists, the last position varying
\* fastest; none when one of the lists is empty.
Product(lists) ==
    IF Len(lists) = 1
    THEN [k \in 1..Len(lists[1]) |-> << lists[1][k] >>]
    ELSE LET rest == Product(Tail(lists))
         IN Flatten([k \in 1..Len(lists[1]) |->
                        [j \in 1..Len(rest) |-> << lists[1][k] >> \o rest[j]]])

\* Itertools::multi_cartesian_product; as expand's comment has it, of no
\* iterators it gives no item at all.
multi_cartesian_product(lists) ==
    IF Len(lists) = 0 THEN <<>> ELSE Product(lists)

\* The chain of an empty combination, whatever the arguments.
args_cartesian_product_always_chained(fa) ==
    multi_cartesian_product([k \in 1..Len(fa.args) |-> expand_type_wildcard(fa.args[k])])
    \o << <<>> >>

\* args_cartesian_product (gen.rs:29-34): the product of the arguments'
\* candidates, chained with one empty combination when there are no
\* arguments.
args_cartesian_product(fa) ==
    multi_cartesian_product([k \in 1..Len(fa.args) |-> expand_type_wildcard(fa.args[k])])
    \o (IF Len(fa.args) = 0 THEN << <<>> >> ELSE <<>>)

\* An expansion that builds its descriptors afresh instead of cloning the
\* remaining fields.
expand_fresh(fa) ==
    LET combos == args_cartesian_product(fa)
        rets == expand_type_wildcard(fa.ret)
    IN Flatten([k \in 1..Len(combos) |->
                  [j \in 1..Len(rets) |->
                      [fa EXCEPT !.args = combos[k], !.ret = rets[j],
                                 !.type_infer = None, !.batch_fn = None,
                                 !.output = None]]])

\* FunctionAttr::expand: one descriptor per pair of an argument combination
\* and a return candidate, every other field cloned.
expand(fa) ==
    LET combos == args_cartesian_product(fa)
        rets == expand_type_wildcard(fa.ret)
    IN Flatten([k \in 1..Len(combos) |->
                  [j \in 1..Len(rets) |-> [fa EXCEPT !.args = combos[k], !.ret = rets[j]]]])

ExpandInit ==
    /\ attr \in [ name : {"f"},
                  args : UNION { [1..n -> TypePatterns] : n \in 0..MaxExpandArgs },
                  ret : TypePatterns,
                  is_table_function : BOOLEAN,
                  batch_fn : {None, Some("batch")}, type_infer : {None, Some("panic")},
                  output : {None, Some("out")} ]
    /\ pc = "expand"
    /\ expanded = <<>> /\ gen = [kind |-> "none"]
    /\ user_fn = None /\ col_types = <<>>
    /\ input = <<>> /\ index_builder = <<>> /\ out_builder = builder("int")
    /\ error_builder = <<>> /\ item_k = 0 /\ yielded = <<>> /\ calls = <<>>
    /\ result = [kind |-> "none"]
    /\ functions = {} /\ js = Idle(0, "none")

Expand ==
    /\ pc = "expand"
    /\ expanded' = expand(attr)
    /\ pc' = "expanded"
    /\ UNCHANGED <<attr, user_fn, col_types, input, index_builder, out_builder,
                   error_builder, item_k, yielded, calls, result, functions, js, gen>>

ExpandNext == Expand

\* The expansion of one descriptor.
SpecExpand == ExpandInit /\ [][ExpandNext]_vars

\* The number of concrete types a pattern denotes.
Candidates(ty) ==
    IF ty = "*int" THEN {"smallint", "int", "bigint"}
    ELSE IF ty = "*float" THEN {"real", "float"}
    ELSE {ty}

RECURSIVE ProductOfSizes(_)
ProductOfSizes(tys) ==
    IF Len(tys) = 0 THEN 1
    ELSE Cardinality(Candidates(Head(tys))) * ProductOfSizes(Tail(tys))

\* C10: expand returns m * k1 * ... * kN descriptors, one for each element
\* of the product of the arguments' candidate sets and the return
\* candidates, none twice; with no arguments, m descriptors with an empty
\* argument list.
C10_ExpandIsProduct ==
    pc = "expanded"
    => LET N == Len(attr.args)
           m == Cardinality(Candidates(attr.ret))
       IN /\ Len(expanded) = m * ProductOfSizes(attr.args)
          /\ \A a, b \in 1..Len(expanded) : expanded[a] = expanded[b] => a = b
          /\ { <<d.args, d.ret>> : d \in Range(expanded) }
                = { <<as, r>> : as \in { f \in [1..N -> UNION {Candidates(t) : t \in TypePatterns}] :
                                            \A k \in 1..N : f[k] \in Candidates(attr.args[k]) },
                                r \in Candidates(attr.ret) }
          /\ N = 0 => /\ Len(expanded) = m
                      /\ \A d \in Range(expanded) : d.args = <<>>

C10_Witness ==
    /\ pc = "expanded"
    /\ attr.args = <<"*int", "*float">> /\ attr.ret = "*float"
    /\ Len(expanded) = 12

\* The zero-argument case of C10: one descriptor per return candidate.
C10_WitnessNoArgs ==
    /\ pc = "expanded" /\ attr.args = <<>> /\ attr.ret = "*int"
    /\ Len(expanded) = 3

\* A descriptor none of whose types is a wildcard pattern.
WildcardFree(fa) ==
    /\ \A k \in 1..Len(fa.args) : expand_type_wildcard(fa.args[k]) = << fa.args[k] >>
    /\ expand_type_wildcard(fa.ret) = << fa.ret >>

\* C11: the expansion of a wildcard-free descriptor is the list of that
\* descriptor alone, every field as it was, and expanding its element again
\* gives that element.
C11_ExpandIdempotent ==
    (pc = "expanded" /\ WildcardFree(attr))
    => /\ expanded = << attr >>
       /\ \A k \in 1..Len(expanded) : expand(expanded[k]) = << expanded[k] >>

C11_Witness ==
    /\ pc = "expanded"
    /\ attr.args = <<"int", "varchar">> /\ attr.ret = "varchar"
    /\ attr.type_infer = Some("panic") /\ attr.batch_fn = Some("batch")
    /\ attr.output = Some("out") /\ attr.is_table_function
    /\ expanded = << attr >>


\* -------------------------------------- FunctionAttr::generate_type_infer_fn
\* The type names of a descriptor handed to type inference.
InferArgTypes == {"any", "anyarray", "struct", "int"}

InferRetTypes == {"any", "anyarray", "struct", "int", "int[]"}

\* The `type_infer` strings an author may write: the literal "panic", a
\* closure, and text that is no token stream (an unclosed parenthesis).
TypeInferExprs == {"panic", "|args| Ok(args[0].clone())", "|args| Ok(args[0]"}

\* `func.parse()`: a string with an unclosed delimiter is a LexError.
parses(func) == func # "|args| Ok(args[0]"

\* The caller's types: a DataType is a path of constructors.
List(dt) == <<"List">> \o dt

DataTypes == { <<"Int32">>, <<"Utf8">>, <<"Struct">>, List(<<"Int32">>), List(<<"Utf8">>) }

\* data_type(ty): the DataType of a concrete type name.
data_type(ty) ==
    CASE ty = "int" -> <<"Int32">>
      [] ty = "varchar" -> <<"Utf8">>
      [] ty = "int[]" -> List(<<"Int32">>)
      [] OTHER -> <<"Struct">>

\* The caller's type dt is one the declared argument type ty admits.
Admits(ty, dt) ==
    CASE ty = "any" -> TRUE
      [] ty = "anyarray" -> Head(dt) = "List"
      [] ty = "struct" -> dt = <<"Struct">>
      [] OTHER -> dt = data_type(ty)

\* The set of positions of t in args, zero-based.
Positions(args, t) == { k - 1 : k \in { j \in 1..Len(args) : args[j] = t } }

\* The last position instead of the first.
position_last(args, t) ==
    IF Positions(args, t) = {} THEN None ELSE Some(Max(Positions(args, t)))

\* `self.args.iter().position(|t| t == ..)`: the first position, if any.
position(args, t) ==
    IF Positions(args, t) = {} THEN None ELSE Some(Min(Positions(args, t)))

\* What generate_type_infer_fn returns: a closure, an Err, or a panic of
\* the unwrap of a failed parse.
InferFn(f, i, ty) == [status |-> "ok", f |-> f, i |-> i, ty |-> ty]

InferErr == [status |-> "err", f |-> "type inference function is required", i |-> 0, ty |-> <<>>]

InferPanic == [status |-> "panic", f |-> "unwrap", i |-> 0, ty |-> <<>>]

\* generate_type_infer_fn (gen.rs:49-89).
generate_type_infer_fn(fa) ==
    LET any == position(fa.args, "any")
        anyarray == position(fa.args, "anyarray")
        struct == position(fa.args, "struct")
    IN IF is_some(fa.type_infer)
       THEN (IF Unwrap(fa.type_infer) = "panic" THEN InferFn("panic", 0, <<>>)
             ELSE IF parses(Unwrap(fa.type_infer)) THEN InferFn("user", 0, <<>>)
             ELSE InferPanic)
       ELSE IF fa.ret = "any"
       THEN (IF is_some(any) THEN InferFn("clone", Unwrap(any), <<>>)
             ELSE IF is_some(anyarray) THEN InferFn("as_list", Unwrap(anyarray), <<>>)
             ELSE InferErr)
       ELSE IF fa.ret = "anyarray"
       THEN (IF is_some(anyarray) THEN InferFn("clone", Unwrap(anyarray), <<>>)
             ELSE IF is_some(any) THEN InferFn("List", Unwrap(any), <<>>)
             ELSE InferErr)
       ELSE IF fa.ret = "struct"
       THEN (IF is_some(struct) THEN InferFn("clone", Unwrap(struct), <<>>)
             ELSE InferErr)
       ELSE InferFn("fixed", 0, data_type(fa.ret))

\* The generated closure applied to the caller's argument types.
infer(fn, args) ==
    CASE fn.f = "clone" -> [outcome |-> "ok", ty |-> args[fn.i + 1]]
      [] fn.f = "as_list" -> [outcome |-> "ok", ty |-> Tail(args[fn.i + 1])]
      [] fn.f = "List" -> [outcome |-> "ok", ty |-> List(args[fn.i + 1])]
      [] fn.f = "fixed" -> [outcome |-> "ok", ty |-> fn.ty]
      [] fn.f = "user" -> [outcome |-> "user", ty |-> <<>>]
      [] OTHER -> [outcome |-> "panic", ty |-> <<>>]

InferInit ==
    /\ attr \in [ name : {"f"},
                  args : UNION { [1..n -> InferArgTypes] : n \in 0..MaxInferArgs },
                  ret : InferRetTypes,
                  is_table_function : {FALSE},
                  batch_fn : {None},
                  type_infer : {None} \cup { Some(e) : e \in TypeInferExprs },
                  output : {None} ]
    /\ pc = "infer"
    /\ gen = [kind |-> "none"]
    /\ expanded = <<>>
    /\ user_fn = None /\ col_types = <<>>
    /\ input = <<>> /\ index_builder = <<>> /\ out_builder = builder("int")
    /\ error_builder = <<>> /\ item_k = 0 /\ yielded = <<>> /\ calls = <<>>
    /\ result = [kind |-> "none"]
    /\ functions = {} /\ js = Idle(0, "none")

\* generate_type_infer_fn is called for the descriptor.
GenerateTypeInfer ==
    /\ pc = "infer"
    /\ gen' = [kind |-> "infer_fn", fn |-> generate_type_infer_fn(attr),
               args |-> <<>>, out |-> [outcome |-> "none", ty |-> <<>>]]
    /\ pc' = "inferable"
    /\ UNCHANGED <<attr, user_fn, col_types, input, index_builder, out_builder,
                   error_builder, item_k, yielded, calls, result, functions, js, expanded>>

\* The catalog calls the closure with argument types the descriptor admits.
ApplyInfer ==
    /\ pc = "inferable" /\ gen.fn.status = "ok"
    /\ \E args \in [1..Len(attr.args) -> DataTypes] :
          /\ \A k \in 1..Len(args) : Admits(attr.args[k], args[k])
          /\ gen' = [gen EXCEPT !.args = args, !.out = infer(gen.fn, args)]
    /\ pc' = "inferred"
    /\ UNCHANGED <<attr, user_fn, col_types, input, index_builder, out_builder,
                   error_builder, item_k, yielded, calls, result, functions, js, expanded>>

InferNext == GenerateTypeInfer \/ ApplyInfer

\* Type inference: the closure is generated, then applied once.
SpecInfer == InferInit /\ [][InferNext]_vars

\* C12: with no inference expression and return type any, the closure
\* returns the caller's type at the first any argument whatever the other
\* types are, and the element type of the first anyarray argument only when
\* there is no any argument.
C12_InferAny ==
    (pc = "inferred" /\ attr.type_infer = None /\ attr.ret = "any")
    => LET anys == { k \in 1..Len(attr.args) : attr.args[k] = "any" }
           arrays == { k \in 1..Len(attr.args) : attr.args[k] = "anyarray" }
       IN /\ gen.out.outcome = "ok"
          /\ IF anys # {}
             THEN gen.out.ty = gen.args[Min(anys)]
             ELSE /\ arrays # {}
                  /\ gen.args[Min(arrays)] = List(gen.out.ty)

\* (any, any) called with (Int32, Utf8) infers Int32.
C12_Witness ==
    /\ pc = "inferred" /\ attr.type_infer = None /\ attr.ret = "any"
    /\ attr.args = <<"any", "any">>
    /\ gen.args = << <<"Int32">>, <<"Utf8">> >>
    /\ gen.out = [outcome |-> "ok", ty |-> <<"Int32">>]

\* (anyarray, int) called with (List(Utf8), Int32) infers Utf8.
C12_WitnessArray ==
    /\ pc = "inferred" /\ attr.type_infer = None /\ attr.ret = "any"
    /\ attr.args = <<"anyarray", "int">>
    /\ gen.out = [outcome |-> "ok", ty |-> <<"Utf8">>]

\* The return type is a wildcard class no argument matches.
Unmatched(fa) ==
    \/ /\ fa.ret \in {"any", "anyarray"}
       /\ \A k \in 1..Len(fa.args) : fa.args[k] \notin {"any", "anyarray"}
    \/ /\ fa.ret = "struct"
       /\ \A k \in 1..Len(fa.args) : fa.args[k] # "struct"

\* C13 (as claimed): generate_type_infer_fn returns the configuration error
\* exactly when there is no inference expression and the return type is
\* unmatched; in every other case it returns a closure.
C13_InferFailsExactly ==
    pc \in {"inferable", "inferred"}
    => IF attr.type_infer = None /\ Unmatched(attr)
       THEN gen.fn.status = "err"
       ELSE gen.fn.status = "ok"


\* ------------------------------------ FunctionAttr::generate_function_descriptor
\* A string is the sequence of its characters; the type and function names
\* that occur in a descriptor, spelled out.
Chars(str) ==
    CASE str = "int" -> <<"i", "n", "t">>
      [] str = "varchar" -> <<"v", "a", "r", "c", "h", "a", "r">>
      [] str = "bytea" -> <<"b", "y", "t", "e", "a">>
      [] str = "..." -> <<".", ".", ".">>
      [] str = "f" -> <<"f">>
      [] str = "arrowudf_" -> <<"a", "r", "r", "o", "w", "u", "d", "f", "_">>
      [] OTHER -> <<"?">>

\* The byte of an ASCII character.
Byte(ch) ==
    CASE ch = "(" -> 40 [] ch = ")" -> 41 [] ch = "," -> 44 [] ch = "-" -> 45
      [] ch = "." -> 46 [] ch = ">" -> 62 [] ch = "?" -> 63
      [] ch = "a" -> 97 [] ch = "b" -> 98 [] ch = "c" -> 99 [] ch = "e" -> 101
      [] ch = "f" -> 102 [] ch = "h" -> 104 [] ch = "i" -> 105 [] ch = "n" -> 110
      [] ch = "r" -> 114 [] ch = "t" -> 116 [] ch = "v" -> 118 [] ch = "y" -> 121
      [] OTHER -> 0

\* `str.as_bytes()`
as_bytes(chars) == [k \in 1..Len(chars) |-> Byte(chars[k])]

RECURSIVE join(_, _)
\* Itertools::join of character strings.
join(strs, sep) ==
    IF Len(strs) = 0 THEN <<>>
    ELSE IF Len(strs) = 1 THEN strs[1]
    ELSE strs[1] \o sep \o join(Tail(strs), sep)

\* FunctionAttr::normalize_signature: name(arg,..)->ret.
normalize_signature(fa) ==
    Chars(fa.name) \o <<"(">>
    \o join([k \in 1..Len(fa.args) |-> Chars(fa.args[k])], <<",">>)
    \o <<")", "-", ">">> \o Chars(fa.ret)

\* The standard base64 alphabet, with '+' and '/'.
alphabet_standard ==
    << "A", "B", "C", "D", "E", "F", "G", "H", "I", "J", "K", "L", "M",
       "N", "O", "P", "Q", "R", "S", "T", "U", "V", "W", "X", "Y", "Z",
       "a", "b", "c", "d", "e", "f", "g", "h", "i", "j", "k", "l", "m",
       "n", "o", "p", "q", "r", "s", "t", "u", "v", "w", "x", "y", "z",
       "0", "1", "2", "3", "4", "5", "6", "7", "8", "9", "+", "/" >>

\* `Alphabet::new("ABC..XYZabc..xyz0123456789$_")` (gen.rs:688-689).
alphabet ==
    << "A", "B", "C", "D", "E", "F", "G", "H", "I", "J", "K", "L", "M",
       "N", "O", "P", "Q", "R", "S", "T", "U", "V", "W", "X", "Y", "Z",
       "a", "b", "c", "d", "e", "f", "g", "h", "i", "j", "k", "l", "m",
       "n", "o", "p", "q", "r", "s", "t", "u", "v", "w", "x", "y", "z",
       "0", "1", "2", "3", "4", "5", "6", "7", "8", "9", "$", "_" >>

\* The character of a 6-bit group.
Sextet(n) == alphabet[n + 1]

RECURSIVE encode(_)
\* `GeneralPurpose::new(&alphabet, NO_PAD).encode`: three bytes give four
\* characters; a last group of one byte gives two, of two bytes three, and
\* no padding is written.
encode(bytes) ==
    IF Len(bytes) = 0 THEN <<>>
    ELSE IF Len(bytes) = 1
    THEN << Sextet(bytes[1] \div 4), Sextet((bytes[1] % 4) * 16) >>
    ELSE IF Len(bytes) = 2
    THEN << Sextet(bytes[1] \div 4),
            Sextet((bytes[1] % 4) * 16 + bytes[2] \div 16),
            Sextet((bytes[2] % 16) * 4) >>
    ELSE << Sextet(bytes[1] \div 4),
            Sextet((bytes[1] % 4) * 16 + bytes[2] \div 16),
            Sextet((bytes[2] % 16) * 4 + bytes[3] \div 64),
            Sextet(bytes[3] % 64) >>
         \o encode(SubSeq(bytes, 4, Len(bytes)))

\* base64_encode (gen.rs:680-692).
base64_encode(chars) == encode(as_bytes(chars))

\* `format!("arrowudf_{}", base64_encode(&self.normalize_signature()))`
export_name(fa) == Chars("arrowudf_") \o base64_encode(normalize_signature(fa))

\* The argument lists of a descriptor handed to generation: up to
\* MaxGenArgs types, the last of which may be the variadic marker.
GenArgLists ==
    LET plain(n) == [1..n -> {"int", "varchar"}]
    IN UNION { plain(n) : n \in 0..MaxGenArgs }
       \cup UNION { { Append(a, "...") : a \in plain(n) } : n \in 0..(MaxGenArgs - 1) }

GenRetTypes == {"int", "varchar", "bytea"}

\* The descriptors and signatures generate_function_descriptor is called
\* with: a table function's user function returns an iterator.
GenConfigs ==
    { c \in [ fa : [ name : {"f"}, args : GenArgLists, ret : GenRetTypes,
                     is_table_function : BOOLEAN, batch_fn : {None, Some("f_batch")},
                     type_infer : {None}, output : {None} ],
              ufn : [ name : {"f"}, args_option : {<<>>} \cup UNION { [1..n -> {FALSE}] : n \in 1..MaxGenArgs },
                      context : BOOLEAN, write : BOOLEAN, async_ : BOOLEAN,
                      return_type_kind : Kinds,
                      iterator_item_kind : {None, Some("T"), Some("Result")} ] ] :
        /\ Len(c.ufn.args_option) = num_args(c.fa)
        /\ is_some(c.ufn.iterator_item_kind) = c.fa.is_table_function }

\* generate_function_descriptor (gen.rs:94-148): the Err of
\* generate_function is returned as it is; otherwise the routine of the
\* selected branch, the FunctionSignature, and for a scalar function the
\* exported entry point.
generate_function_descriptor(fa, ufn) ==
    LET p == eval_path(fa, ufn)
    IN IF p \in {"error_batch_variadic", "error_write"}
       THEN [kind |-> "descriptor", status |-> "err", message |-> p, routine |-> "none",
             ffi |-> None, variadic |-> FALSE, arg_types |-> <<>>, function |-> "none"]
       ELSE [kind |-> "descriptor", status |-> "ok", message |-> "", routine |-> p,
             ffi |-> IF fa.is_table_function THEN None ELSE Some(export_name(fa)),
             variadic |-> variadic(fa),
             arg_types |-> SubSeq(fa.args, 1, num_args(fa)),
             function |-> IF fa.is_table_function THEN "Table" ELSE "Scalar"]

GenInit ==
    /\ \E c \in GenConfigs : attr = c.fa /\ user_fn = c.ufn
    /\ pc = "generate"
    /\ gen = [kind |-> "none"]
    /\ expanded = <<>> /\ col_types = <<>>
    /\ input = <<>> /\ index_builder = <<>> /\ out_builder = builder("int")
    /\ error_builder = <<>> /\ item_k = 0 /\ yielded = <<>> /\ calls = <<>>
    /\ result = [kind |-> "none"]
    /\ functions = {} /\ js = Idle(0, "none")

GenerateFunctionDescriptor ==
    /\ pc = "generate"
    /\ gen' = generate_function_descriptor(attr, user_fn)
    /\ pc' = "generated"
    /\ UNCHANGED <<attr, user_fn, col_types, input, index_builder, out_builder,
                   error_builder, item_k, yielded, calls, result, functions, js, expanded>>

GenNext == GenerateFunctionDescriptor

\* Code generation for one descriptor and signature.
SpecGen == GenInit /\ [][GenNext]_vars

\* The characters of a linker symbol the claim allows.
SymbolChars ==
    { "A", "B", "C", "D", "E", "F", "G", "H", "I", "J", "K", "L", "M",
      "N", "O", "P", "Q", "R", "S", "T", "U", "V", "W", "X", "Y", "Z",
      "a", "b", "c", "d", "e", "f", "g", "h", "i", "j", "k", "l", "m",
      "n", "o", "p", "q", "r", "s", "t", "u", "v", "w", "x", "y", "z",
      "0", "1", "2", "3", "4", "5", "6", "7", "8", "9", "$", "_" }

\* The 6-bit group a symbol character stands for.
Group(ch) == CHOOSE n \in 0..63 : alphabet[n + 1] = ch

RECURSIVE Decoded(_)
\* The bytes an unpadded base64 text stands for.
Decoded(chars) ==
    LET g(k) == Group(chars[k])
    IN IF Len(chars) < 2 THEN <<>>
       ELSE IF Len(chars) = 2 THEN << g(1) * 4 + g(2) \div 16 >>
       ELSE IF Len(chars) = 3
       THEN << g(1) * 4 + g(2) \div 16, (g(2) % 16) * 16 + g(3) \div 4 >>
       ELSE << g(1) * 4 + g(2) \div 16, (g(2) % 16) * 16 + g(3) \div 4,
               (g(3) % 4) * 64 + g(4) >>
            \o Decoded(SubSeq(chars, 5, Len(chars)))

\* C14: the exported symbol of a scalar descriptor is "arrowudf_" followed
\* by text that decodes, as unpadded base64 over the custom alphabet, to the
\* bytes of the canonical signature; deriving it again gives the same
\* string; a descriptor that differs only in the return type gets another
\* name; every character is a letter, a digit, '$' or '_'.
C14_ExportName ==
    (pc = "generated" /\ gen.status = "ok" /\ ~attr.is_table_function)
    => LET name == Unwrap(gen.ffi)
           prefix == Chars("arrowudf_")
           text == SubSeq(name, Len(prefix) + 1, Len(name))
       IN /\ is_some(gen.ffi)
          /\ SubSeq(name, 1, Len(prefix)) = prefix
          /\ \A k \in 1..Len(name) : name[k] \in SymbolChars
          /\ Decoded(text) = as_bytes(normalize_signature(attr))
          /\ Len(text) = (4 * Len(normalize_signature(attr)) + 2) \div 3
          /\ name = Unwrap(generate_function_descriptor(attr, user_fn).ffi)
          /\ \A r \in GenRetTypes \ {attr.ret} :
                export_name([attr EXCEPT !.ret = r]) # name

\* f(int,int)->varchar: the '>' of the signature is the third byte of its
\* group, so the name holds a '$'.
C14_Witness ==
    /\ pc = "generated" /\ gen.status = "ok" /\ ~attr.is_table_function
    /\ attr.args = <<"int", "int">> /\ attr.ret = "varchar"
    /\ \E k \in 1..Len(Unwrap(gen.ffi)) : Unwrap(gen.ffi)[k] = "$"

\* C15 (as claimed): generation returns a configuration error and emits no
\* routine for every descriptor that is variadic and names a custom batch
\* function, and for every write function whose return type is neither
\* varchar nor bytea, whatever the kind and the path.
C15_ConfigErrors ==
    (/\ pc = "generated"
     /\ \/ variadic(attr) /\ is_some(attr.batch_fn)
        \/ user_fn.write /\ attr.ret \notin {"varchar", "bytea"})
    => gen.status = "err" /\ gen.routine = "none" /\ gen.ffi = None

\* The branch of generate_function that answered: the one whose routine was
\* emitted, or the one that returned the configuration error.
Branch ==
    IF gen.status = "ok" THEN gen.routine
    ELSE IF gen.message = "error_batch_variadic" THEN "batch_fn"
    ELSE "generic"

\* The conditions of the vectorized fast path, as the claim lists them.
FastPathAllowed ==
    /\ ~attr.is_table_function /\ attr.batch_fn = None
    /\ attr.ret \in {"smallint", "int", "bigint", "real", "float"}
    /\ \A k \in 1..Len(attr.args) : attr.args[k] \in {"smallint", "int", "bigint", "real", "float"}
    /\ Len(attr.args) <= 2
    /\ \A k \in 1..Len(attr.args) : attr.args[k] # "..."
    /\ ~user_fn.context /\ ~user_fn.write /\ ~user_fn.async_
    /\ user_fn.return_type_kind = "T"

\* C17: the branch is decided by the descriptor and the signature alone,
\* in the order table function, custom batch function, vectorized fast
\* path, generic loop; the fast path is taken only under its conditions.
C17_PathPrecedence ==
    pc = "generated"
    => /\ Branch = (IF attr.is_table_function THEN "table"
                    ELSE IF attr.batch_fn # None THEN "batch_fn"
                    ELSE IF FastPathAllowed THEN "simd"
                    ELSE "generic")
       /\ Branch = "simd" => FastPathAllowed
       /\ gen = generate_function_descriptor(attr, user_fn)

\* A pure (int, int) -> int function takes the fast path.
C17_Witness ==
    /\ pc = "generated" /\ gen.status = "ok" /\ gen.routine = "simd"
    /\ attr.args = <<"int", "int">> /\ attr.ret = "int"
    /\ is_pure(user_fn)

\* The same function with a custom batch function named takes that one.
C17_WitnessBatchFn ==
    /\ pc = "generated" /\ gen.status = "ok" /\ gen.routine = "batch_fn"
    /\ attr.args = <<"int", "int">> /\ attr.ret = "int"
    /\ is_pure(user_fn)

\* C16 (as claimed): in a scalar routine for a user function that can fail,
\* after every row the value column and the error column hold one entry per
\* input row, on the generic, the streaming-sink and the custom batch path
\* alike; the call is not aborted and the batch returned has n rows.
C16_ColumnsInStep ==
    (/\ ~attr.is_table_function /\ has_error(user_fn)
     /\ path \in {"generic", "batch_fn"}
     /\ pc \in {"rows", "done", "panicked"})
    => /\ BuilderLen(out_builder) = Len(input)
       /\ Len(error_builder) = Len(input)
       /\ pc # "panicked"
       /\ pc = "done" => result.kind = "batch" /\ result.num_rows = Len(input)

\* A step of add_function, and one of the head of call.
AddStep == js'.adds = js.adds + 1

CallStep == js.pc = "idle" /\ js'.adds = js.adds /\ js' # js

\* C18: call fails with "function not found" exactly for a name no
\* add_function has succeeded for before; a failed add_function leaves the
\* registry as it was; a successful one replaces the entry of its name and
\* no other entry; call never changes the registry.
C18_Registry ==
    /\ [](/\ Registered = js.added
          /\ \A a, b \in functions : a.name = b.name => a = b)
    /\ [][ /\ (AddStep /\ js'.outcome # "ok") => functions' = functions
           /\ (AddStep /\ js'.outcome = "ok")
                 => \E fn \in functions' :
                       /\ fn.name = js'.name /\ fn.function = js.adds
                       /\ functions' \ {fn} = { old \in functions : old.name # js'.name }
           /\ ~AddStep => functions' = functions
           /\ CallStep => /\ js'.outcome = "function not found" <=> js'.name \notin js.added
                          /\ js'.pc = "loop" <=> js'.name \in js.added ]_vars

\* After two add_function calls of which "f" was added, call("g") has
\* failed and the registry holds "f" alone.
C18_Witness ==
    /\ js.pc = "idle" /\ js.outcome = "function not found" /\ js.name = "g"
    /\ js.adds = 2 /\ js.added = {"f"}
    /\ \E fn \in functions : fn.name = "f" /\ fn.function = 1 /\ functions = {fn}

====
